---- MODULE Spec2Model ----
(***************************************************************************)
(* A model of migu (src/migu.go): Diff compares the tables declared by    *)
(* annotated Go structs with the columns of the live MySQL catalog and    *)
(* returns the DDL statements that reconcile them; Sync executes them in  *)
(* one transaction.                                                        *)
(*                                                                         *)
(* A statement is modelled as the sequence of its tokens (the Go code      *)
(* builds the same text with fmt.Sprintf and strings.Join); an identifier  *)
(* quoted by the dialect is one token.                                     *)
(***************************************************************************)
EXTENDS Integers, Sequences, FiniteSets, TLC

VARIABLES
    src,        \* the parsed source: table name -> [Fields, Option] (structASTMap)
    db,         \* the live catalog: table name -> sequence of columnSchema
    pc,         \* where the caller is: start, diffed, begin, exec, done, rerun,
                \* compared
    sqls,       \* the statements the first Diff returned
    err,        \* the error the last call returned ("" is nil)
    tx,         \* the transaction of Sync: none, open, committed, rolledback,
                \* commit failed
    next,       \* the position of Sync's loop over sqls
    executed,   \* the statements handed to tx.Exec so far, in order
    again,      \* the statements a second Diff returned after a committed Sync
    fa, fb,     \* the two fields of a type comparison
    verdict     \* what the comparison of fa and fb returned

vars == <<src, db, pc, sqls, err, tx, next, executed, again, fa, fb, verdict>>

---------------------------------------------------------------------------
(* Bounds of the model. *)

\* The most fields a desired table declares, and columns a live table has.
MaxFields == 2

---------------------------------------------------------------------------
(* Program constants. *)

defaultVarcharSize == 255

---------------------------------------------------------------------------
(* Helpers for sequences and maps. *)

\* inStrings(list, s): whether s is an element of list (a helper of the
\* repository that is not part of migu.go).
inStrings(list, s) == \E i \in DOMAIN list : list[i] = s

\* The elements of a sequence.
Range(s) == {s[i] : i \in DOMAIN s}

\* strings.Join(parts, sep) over token sequences: the parts with the
\* separator token between them.
RECURSIVE JoinTokens(_, _)
JoinTokens(parts, sep) ==
    IF parts = <<>> THEN <<>>
    ELSE IF Len(parts) = 1 THEN parts[1]
    ELSE parts[1] \o <<sep>> \o JoinTokens(Tail(parts), sep)

\* sort.Strings on a set of names: the names in increasing order.  The
\* names of the model are ordered by NameRank, which agrees with the
\* byte order of the strings.
NameRank(n) ==
    CASE n = "legacy" -> 1
      [] n = "t1" -> 2
      [] n = "t2" -> 3
      [] OTHER -> 4

RECURSIVE SortNames(_)
SortNames(S) ==
    IF S = {} THEN <<>>
    ELSE LET m == CHOOSE x \in S : \A y \in S : NameRank(x) <= NameRank(y)
         IN <<m>> \o SortNames(S \ {m})

---------------------------------------------------------------------------
(* The type equivalence registry. *)

\* The classes of interchangeable type spellings.
sameTypeClasses ==
    << <<"*int8", "*bool", "sql.NullBool">>,
       <<"int8", "bool">>,
       <<"*uint", "*uint32">>,
       <<"uint", "uint32">>,
       <<"*int", "*int32">>,
       <<"int", "int32">>,
       <<"*int64", "sql.NullInt64">>,
       <<"*string", "sql.NullString">>,
       <<"*float32", "*float64", "sql.NullFloat64">>,
       <<"float32", "float64">> >>

\* sameTypeMap[t]: the class registered for t (the last one that lists it,
\* as the map is filled in order), or the empty list for an unknown token.
sameTypeMap(t) ==
    LET hits == {i \in DOMAIN sameTypeClasses : inStrings(sameTypeClasses[i], t)}
    IN IF hits = {} THEN <<>>
       ELSE sameTypeClasses[CHOOSE i \in hits : \A j \in hits : j <= i]

\* A variant that accepts only the first spelling of the class of t1.
isSameTypeFirstOnly(t1, t2) ==
    t1 = t2 \/ (sameTypeMap(t1) # <<>> /\ sameTypeMap(t1)[1] = t2)

\* isSameType(t1, t2).
isSameType(t1, t2) == t1 = t2 \/ inStrings(sameTypeMap(t1), t2)

---------------------------------------------------------------------------
(* Names: github.com/naoina/go-stringutil on the identifiers of the model. *)

\* stringutil.ToSnakeCase on the Go field names of the model.
ToSnakeCase(n) ==
    CASE n = "ID" -> "id"
      [] n = "Id" -> "id"
      [] n = "Name" -> "name"
      [] n = "Age" -> "age"
      [] n = "Email" -> "email"
      [] n = "_" -> "_"
      [] OTHER -> n

\* stringutil.ToUpperCamelCase on the column names of the model.
ToUpperCamelCase(n) ==
    CASE n = "id" -> "Id"
      [] n = "name" -> "Name"
      [] n = "age" -> "Age"
      [] n = "email" -> "Email"
      [] OTHER -> n

\* ast.IsExported: the name begins with an upper-case letter.
IsExported(n) == n \in {"ID", "Id", "Name", "Age", "Email"}

---------------------------------------------------------------------------
(* The field model. *)

\* The sizes a size tag of the model may carry, for strconv.ParseUint.
SizeValues == {32, defaultVarcharSize}

\* strconv.ParseUint(s, 10, 64) on the decimal renderings of SizeValues.
ParseUint(s) == CHOOSE n \in SizeValues : ToString(n) = s

\* A struct tag is the sequence of its comma-separated options, each split
\* at its first colon: <<key>> or <<key, value>>.
\* parseStructTag: the field f updated by the options of tag, in order.
\* (No option of the model is malformed: the error returns are not taken.)
RECURSIVE parseStructTag(_, _)
parseStructTag(f, tag) ==
    IF tag = <<>> THEN f
    ELSE LET optval == tag[1]
             g == CASE optval[1] = "default" ->
                          IF Len(optval) > 1 THEN [f EXCEPT !.Default = optval[2]] ELSE f
                    [] optval[1] = "pk" -> [f EXCEPT !.PrimaryKey = TRUE]
                    [] optval[1] = "autoincrement" -> [f EXCEPT !.AutoIncrement = TRUE]
                    [] optval[1] = "index" ->
                          IF Len(optval) = 2
                          THEN [f EXCEPT !.RawIndexes = Append(@, optval[2])]
                          ELSE [f EXCEPT !.RawIndexes = Append(@, "")]
                    [] optval[1] = "unique" -> [f EXCEPT !.Unique = TRUE]
                    [] optval[1] = "-" -> [f EXCEPT !.Ignore = TRUE]
                    [] optval[1] = "column" -> [f EXCEPT !.Column = optval[2]]
                    [] optval[1] = "size" -> [f EXCEPT !.Size = ParseUint(optval[2])]
         IN parseStructTag(g, Tail(tag))

\* (*ast.CommentGroup).Text() on a group of one comment, then
\* strings.TrimSpace.  Text() drops the two characters that open the
\* comment.  A comment read from a source file opens with "//": its text is
\* what follows, here the whole token.  fieldAST builds the comment
\* " // " + ColumnComment, which opens with a blank: the two characters
\* dropped are " /", and "/ " + ColumnComment is left.
CommentText(c) ==
    IF c.fromCatalog THEN "/ " \o c.text ELSE c.text

\* newField(typeName, f): the field of an *ast.Field.
newField(typeName, f) ==
    LET ret0 == [Name |-> f.Name, Type |-> typeName, Column |-> "", Comment |-> "",
                 RawIndexes |-> <<>>, Unique |-> FALSE, PrimaryKey |-> FALSE,
                 AutoIncrement |-> FALSE, Ignore |-> FALSE, Default |-> "",
                 Size |-> defaultVarcharSize]
        ret1 == parseStructTag(ret0, f.Tag)
        ret2 == IF f.Comment # <<>>
                THEN [ret1 EXCEPT !.Comment = CommentText(f.Comment[1])]
                ELSE ret1
    IN IF ret2.Column = "" THEN [ret2 EXCEPT !.Column = ToSnakeCase(ret2.Name)] ELSE ret2

\* (*field).Indexes: the raw index names, "" replaced by the column.
Indexes(f) == [i \in DOMAIN f.RawIndexes |->
                  IF f.RawIndexes[i] = "" THEN f.Column ELSE f.RawIndexes[i]]

\* (*field).UniqueIndexes.
UniqueIndexes(f) == IF ~f.Unique THEN <<>> ELSE <<f.Column>>

\* The zero field &field{} that makeIndexMap uses for a missing old field.
ZeroField ==
    [Name |-> "", Type |-> "", Column |-> "", Comment |-> "", RawIndexes |-> <<>>,
     Unique |-> FALSE, PrimaryKey |-> FALSE, AutoIncrement |-> FALSE,
     Ignore |-> FALSE, Default |-> "", Size |-> 0]

\* (*field).IsDifferent on two fields that are not nil.
IsDifferent(f, another) ==
    \/ ~isSameType(f.Type, another.Type)
    \/ f.Default # another.Default
    \/ f.Size # another.Size
    \/ f.Column # another.Column
    \/ f.Comment # another.Comment
    \/ f.AutoIncrement # another.AutoIncrement
    \/ f.PrimaryKey # another.PrimaryKey

\* A *field that may be nil is a sequence of at most one field.
\* (*field).IsDifferent with the nil cases.
IsDifferentPtr(f, another) ==
    IF f = <<>> /\ another = <<>> THEN FALSE
    ELSE \/ (f = <<>> /\ another # <<>>) \/ (f # <<>> /\ another = <<>>)
         \/ IsDifferent(f[1], another[1])

---------------------------------------------------------------------------
(* The catalog projection: a columnSchema to an *ast.Field. *)

\* strings.Contains(ColumnType, "unsigned") on the column types of the model.
isUnsigned(schema) ==
    schema.ColumnType \in {"tinyint(3) unsigned", "int(10) unsigned", "bigint(20) unsigned"}

\* strings.ToUpper(IsNullable) == "YES".
isNullable(schema) == schema.IsNullable \in {"YES", "yes"}

hasPrimaryKey(schema) ==
    schema.ColumnKey = "PRI" /\ schema.IndexName \in {"PRIMARY", "primary"}

hasAutoIncrement(schema) == schema.Extra = "auto_increment"

hasIndex(schema) ==
    schema.IndexName # "" /\ ~hasPrimaryKey(schema) /\ schema.NonUnique # 0

hasUniqueKey(schema) ==
    schema.IndexName # "" /\ ~hasPrimaryKey(schema) /\ schema.NonUnique = 0

hasSize(schema) ==
    schema.DataType = "varchar" /\ schema.CharacterMaximumLength # <<>>

\* (*columnSchema).GoFieldTypes: the Go spellings of the column's type, or
\* the empty list where the code returns its "unexpected data type" error.
GoFieldTypes(schema) ==
    CASE schema.DataType = "tinyint" ->
            IF isUnsigned(schema)
            THEN (IF isNullable(schema) THEN <<"*uint8">> ELSE <<"uint8">>)
            ELSE (IF isNullable(schema) THEN <<"*int8", "*bool", "sql.NullBool">>
                  ELSE <<"int8", "bool">>)
      [] schema.DataType = "smallint" ->
            IF isUnsigned(schema)
            THEN (IF isNullable(schema) THEN <<"*uint16">> ELSE <<"uint16">>)
            ELSE (IF isNullable(schema) THEN <<"*int16">> ELSE <<"int16">>)
      [] schema.DataType \in {"mediumint", "int"} ->
            IF isUnsigned(schema)
            THEN (IF isNullable(schema) THEN <<"*uint", "*uint32">> ELSE <<"uint", "uint32">>)
            ELSE (IF isNullable(schema) THEN <<"*int", "*int32">> ELSE <<"int", "int32">>)
      [] schema.DataType = "bigint" ->
            IF isUnsigned(schema)
            THEN (IF isNullable(schema) THEN <<"*uint64">> ELSE <<"uint64">>)
            ELSE (IF isNullable(schema) THEN <<"*int64", "sql.NullInt64">> ELSE <<"int64">>)
      [] schema.DataType \in {"varchar", "text", "mediumtext", "longtext"} ->
            IF isNullable(schema) THEN <<"*string", "sql.NullString">> ELSE <<"string">>
      [] schema.DataType = "datetime" ->
            IF isNullable(schema) THEN <<"*time.Time">> ELSE <<"time.Time">>
      [] schema.DataType = "double" ->
            IF isNullable(schema) THEN <<"*float32", "*float64", "sql.NullFloat64">>
            ELSE <<"float32", "float64">>
      [] OTHER -> <<>>

\* (*columnSchema).fieldAST, for a column whose data type is known: the
\* field named after the column, of the first Go spelling, with the tags
\* of the column's facets.
fieldAST(schema) ==
    LET tags ==
            (IF schema.ColumnDefault # <<>>
             THEN << <<"default", schema.ColumnDefault[1]>> >> ELSE <<>>)
            \o (IF hasPrimaryKey(schema) THEN << <<"pk">> >> ELSE <<>>)
            \o (IF hasAutoIncrement(schema) THEN << <<"autoincrement">> >> ELSE <<>>)
            \o (IF hasIndex(schema)
                THEN (IF schema.IndexName = schema.ColumnName
                      THEN << <<"index">> >>
                      ELSE << <<"index", schema.IndexName>> >>)
                ELSE <<>>)
            \o (IF hasUniqueKey(schema) THEN << <<"unique">> >> ELSE <<>>)
            \o (IF hasSize(schema) /\ schema.CharacterMaximumLength[1] # defaultVarcharSize
                THEN << <<"size", ToString(schema.CharacterMaximumLength[1])>> >>
                ELSE <<>>)
    IN [Name |-> ToUpperCamelCase(schema.ColumnName),
        Type |-> [kind |-> "ident", name |-> GoFieldTypes(schema)[1]],
        Tag |-> tags,
        Comment |-> IF schema.ColumnComment # ""
                    THEN <<[fromCatalog |-> TRUE, text |-> schema.ColumnComment]>>
                    ELSE <<>>]

\* detectTypeName on a type expression: the name of an identifier, X.Sel
\* for a selector, *X for a pointer, and "" (the "unknown type" error) for
\* any other node.
RECURSIVE detectTypeName(_)
detectTypeName(n) ==
    CASE n.kind = "ident" -> n.name
      [] n.kind = "selector" ->
            LET name == detectTypeName(n.x)
            IN IF name = "" THEN "" ELSE name \o "." \o n.sel
      [] n.kind = "star" ->
            LET name == detectTypeName(n.x)
            IN IF name = "" THEN "" ELSE "*" \o name
      [] OTHER -> ""

---------------------------------------------------------------------------
(* The dialect (github.com/naoina/migu/dialect, MySQL). *)

\* (*MySQL).Quote: the identifier between quotation marks (the dialect's
\* mark is the backquote, written here as a double quote).
Quote(s) == "\"" \o s \o "\""

\* (*MySQL).QuoteString: the string as a literal.
QuoteString(s) == "'" \o s \o "'"

\* (*MySQL).ColumnType: the SQL type of a Go type and whether it is nullable.
ColumnType(name, size, autoIncrement) ==
    CASE name = "string" -> <<"VARCHAR(" \o ToString(size) \o ")", FALSE>>
      [] name \in {"*string", "sql.NullString"} ->
            <<"VARCHAR(" \o ToString(size) \o ")", TRUE>>
      [] name \in {"int", "int32"} -> <<"INT", FALSE>>
      [] name \in {"*int", "*int32"} -> <<"INT", TRUE>>
      [] name \in {"int8", "bool"} -> <<"TINYINT", FALSE>>
      [] name \in {"*int8", "*bool", "sql.NullBool"} -> <<"TINYINT", TRUE>>
      [] name = "int64" -> <<"BIGINT", FALSE>>
      [] name \in {"*int64", "sql.NullInt64"} -> <<"BIGINT", TRUE>>
      [] OTHER -> <<"VARCHAR(" \o ToString(size) \o ")", TRUE>>

\* (*MySQL).AutoIncrement.
AutoIncrementKeyword == "AUTO_INCREMENT"

\* formatDefault: a string default is quoted, any other is verbatim.
formatDefault(t, def) == IF t = "string" THEN QuoteString(def) ELSE def

\* columnSQL: the column definition of a field, as its tokens.
columnSQL(f) ==
    LET ct == ColumnType(f.Type, f.Size, f.AutoIncrement)
    IN <<Quote(f.Column), ct[1]>>
       \o (IF ~ct[2] THEN <<"NOT NULL">> ELSE <<>>)
       \o (IF f.Default # "" THEN <<"DEFAULT", formatDefault(f.Type, f.Default)>> ELSE <<>>)
       \o (IF f.PrimaryKey THEN <<"PRIMARY KEY">> ELSE <<>>)
       \o (IF f.AutoIncrement /\ AutoIncrementKeyword # "" THEN <<AutoIncrementKeyword>> ELSE <<>>)
       \o (IF f.Comment # "" THEN <<"COMMENT", QuoteString(f.Comment)>> ELSE <<>>)

---------------------------------------------------------------------------
(* The field-level differ. *)

\* map[column]: the field a Go map filled in list order holds for the
\* column (the last of the list with it), or nil.
Lookup(fields, column) ==
    LET hits == {i \in DOMAIN fields : fields[i].Column = column}
    IN IF hits = {} THEN <<>>
       ELSE <<fields[CHOOSE i \in hits : \A j \in hits : j <= i]>>

IsAdded(mf) == mf.old = <<>> /\ mf.new # <<>>

IsDropped(mf) == mf.old # <<>> /\ mf.new = <<>>

IsModified(mf) == mf.old # <<>> /\ mf.new # <<>>

\* The first loop of makeAlterTableFields: the new fields that differ from
\* the old field of the same column, in the order of newFields.
RECURSIVE ChangedFields(_, _)
ChangedFields(oldFields, rest) ==
    IF rest = <<>> THEN <<>>
    ELSE LET f == rest[1]
             oldF == Lookup(oldFields, f.Column)
         IN (IF IsDifferentPtr(oldF, <<f>>) THEN <<[old |-> oldF, new |-> <<f>>]>> ELSE <<>>)
            \o ChangedFields(oldFields, Tail(rest))

\* The second loop: the old fields whose column no new field has, in the
\* order of oldFields.
RECURSIVE DroppedFields(_, _)
DroppedFields(rest, newFields) ==
    IF rest = <<>> THEN <<>>
    ELSE (IF Lookup(newFields, rest[1].Column) = <<>>
          THEN <<[old |-> <<rest[1]>>, new |-> <<>>]>> ELSE <<>>)
         \o DroppedFields(Tail(rest), newFields)

\* A variant that lists the dropped fields first.
makeAlterTableFieldsDropsFirst(oldFields, newFields) ==
    DroppedFields(oldFields, newFields) \o ChangedFields(oldFields, newFields)

makeAlterTableFields(oldFields, newFields) ==
    ChangedFields(oldFields, newFields) \o DroppedFields(oldFields, newFields)

---------------------------------------------------------------------------
(* The index differ. *)

\* An index map is a function from index names to [Columns, Unique].
EmptyMap == [n \in {} |-> 0]

\* One pass of "for _, name := range names { if !inStrings(others, name)
\* { ... append column } }" of makeIndexMap over the index map m.
RECURSIVE AccumulateIndex(_, _, _, _, _)
AccumulateIndex(m, names, others, unique, column) ==
    IF names = <<>> THEN m
    ELSE LET name == names[1]
             m1 == IF inStrings(others, name) THEN m
                   ELSE IF name \in DOMAIN m
                        THEN [m EXCEPT ![name].Columns = Append(@, column)]
                        ELSE m @@ (name :> [Columns |-> <<column>>, Unique |-> unique])
         IN AccumulateIndex(m1, Tail(names), others, unique, column)

\* makeIndexMap over the new fields rest, from the maps of acc.
RECURSIVE IndexMapLoop(_, _, _)
IndexMapLoop(acc, oldFields, rest) ==
    IF rest = <<>> THEN acc
    ELSE LET f == rest[1]
             found == Lookup(oldFields, f.Column)
             oldField == IF found = <<>> THEN ZeroField ELSE found[1]
             oindexes == Indexes(oldField)
             nindexes == Indexes(f)
             oldUniqueIndexes == UniqueIndexes(oldField)
             newUniqueIndexes == UniqueIndexes(f)
             drop1 == AccumulateIndex(acc.drop, oindexes, nindexes, FALSE, oldField.Column)
             drop2 == AccumulateIndex(drop1, oldUniqueIndexes, newUniqueIndexes, TRUE,
                                      oldField.Column)
             add1 == AccumulateIndex(acc.add, nindexes, oindexes, FALSE, f.Column)
             add2 == AccumulateIndex(add1, newUniqueIndexes, oldUniqueIndexes, TRUE, f.Column)
         IN IndexMapLoop([add |-> add2, drop |-> drop2], oldFields, Tail(rest))

\* makeIndexMap: [add |-> addIndexMap, drop |-> dropIndexMap].
makeIndexMap(oldFields, newFields) ==
    IndexMapLoop([add |-> EmptyMap, drop |-> EmptyMap], oldFields, newFields)

---------------------------------------------------------------------------
(* Diff. *)

\* The orders in which a Go range over a map may visit the elements of S.
RECURSIVE PermSeqs(_)
PermSeqs(S) ==
    IF S = {} THEN {<<>>}
    ELSE UNION {{<<x>> \o p : p \in PermSeqs(S \ {x})} : x \in S}

\* Whether Diff keeps the field of a struct (it is not ignored, and it is
\* exported or a blank field with a column of its own).
KeepsField(f) ==
    ~f.Ignore /\ (IsExported(f.Name) \/ (f.Name = "_" /\ f.Name # f.Column))

\* The fields Diff builds from the fields of one struct, in order.
RECURSIVE StructFields(_)
StructFields(list) ==
    IF list = <<>> THEN <<>>
    ELSE LET f == newField(detectTypeName(list[1].Type), list[1])
         IN (IF KeepsField(f) THEN <<f>> ELSE <<>>) \o StructFields(Tail(list))

\* Whether building structMap fails: a field's type has no name.
StructMapFails(astMap) ==
    \E name \in DOMAIN astMap : \E i \in DOMAIN astMap[name].Fields :
        detectTypeName(astMap[name].Fields[i].Type) = ""

\* structMap: the tables of the structs that keep at least one field.
MakeStructMap(astMap) ==
    LET all == [name \in DOMAIN astMap |->
                   [Fields |-> StructFields(astMap[name].Fields),
                    Option |-> astMap[name].Option]]
    IN [name \in {n \in DOMAIN all : all[n].Fields # <<>>} |-> all[name]]

\* The fields of the live columns of one table, appended to oldFields.
ProjectColumns(columns) ==
    [i \in DOMAIN columns |->
        LET oldFieldAST == fieldAST(columns[i])
        IN newField(oldFieldAST.Type.name, oldFieldAST)]

\* A variant that drops the primary key whenever the flag changes.
AlterStatementAnyKeyChange(tableName, mf) ==
    CASE IsAdded(mf) -> <<"ALTER TABLE", tableName, "ADD", Quote(mf.new[1].Column)>>
      [] IsDropped(mf) -> <<"ALTER TABLE", tableName, "DROP", Quote(mf.old[1].Column)>>
      [] IsModified(mf) ->
            LET specs ==
                    (IF mf.old[1].PrimaryKey # mf.new[1].PrimaryKey
                     THEN << <<"DROP PRIMARY KEY">> >> ELSE <<>>)
                    \o << <<"MODIFY">> \o columnSQL(mf.new[1]) >>
            IN <<"ALTER TABLE", tableName>> \o JoinTokens(specs, ",")

\* The statement of one entry of makeAlterTableFields.
AlterStatement(tableName, mf) ==
    CASE IsAdded(mf) -> <<"ALTER TABLE", tableName, "ADD", Quote(mf.new[1].Column)>>
      [] IsDropped(mf) -> <<"ALTER TABLE", tableName, "DROP", Quote(mf.old[1].Column)>>
      [] IsModified(mf) ->
            LET specs ==
                    (IF mf.old[1].PrimaryKey # mf.new[1].PrimaryKey /\ ~mf.new[1].PrimaryKey
                     THEN << <<"DROP PRIMARY KEY">> >> ELSE <<>>)
                    \o << <<"MODIFY">> \o columnSQL(mf.new[1]) >>
            IN <<"ALTER TABLE", tableName>> \o JoinTokens(specs, ",")

\* The CREATE TABLE statement of a desired table.
CreateTableStatement(tableName, tbl) ==
    LET columns == [i \in DOMAIN tbl.Fields |-> columnSQL(tbl.Fields[i])]
    IN <<"CREATE TABLE", tableName, "(">> \o JoinTokens(columns, ",") \o <<")">>
       \o (IF tbl.Option # "" THEN <<tbl.Option>> ELSE <<>>)

DropIndexStatement(tableName, name) == <<"DROP INDEX", Quote(name), "ON", tableName>>

CreateIndexStatement(tableName, name, index) ==
    LET columns == [i \in DOMAIN index.Columns |-> <<Quote(index.Columns[i])>>]
    IN <<(IF index.Unique THEN "CREATE UNIQUE INDEX" ELSE "CREATE INDEX"),
         Quote(name), "ON", tableName, "(">> \o JoinTokens(columns, ",") \o <<")">>

\* The columns that the entries of fields drop.
DroppedColumns(fields) ==
    {fields[i].old[1].Column : i \in {j \in DOMAIN fields : IsDropped(fields[j])}}

\* The DROP INDEX statements of dropIndexMap: none for an index whose first
\* column is in droppedColumn.
DropIndexStatements(tableName, dropIndexMap, droppedColumn) ==
    {DropIndexStatement(tableName, n) :
        n \in {x \in DOMAIN dropIndexMap :
                  dropIndexMap[x].Columns[1] \notin droppedColumn}}

CreateIndexStatements(tableName, addIndexMap) ==
    {CreateIndexStatement(tableName, n, addIndexMap[n]) : n \in DOMAIN addIndexMap}

\* What one turn of Diff's loop leaves, for the table name:
\*   err            whether the turn returns an error (a column of unknown type)
\*   fields         what makeAlterTableFields returned (empty for a new table)
\*   head           the ALTER TABLE or CREATE TABLE statements, in order
\*   drops, adds    the DROP INDEX and the CREATE INDEX statements (each
\*                  emitted in map order)
\*   oldFields, droppedColumn   as the turn leaves them to the next
PassOf(name, tbl, live, failed, oldFields, droppedColumn0, fields, maps) ==
    [name |-> name, err |-> failed, fields |-> fields,
     head |-> IF live
              THEN [i \in DOMAIN fields |-> AlterStatement(Quote(name), fields[i])]
              ELSE <<CreateTableStatement(Quote(name), tbl)>>,
     oldFields |-> oldFields,
     droppedColumn |-> droppedColumn0 \cup DroppedColumns(fields),
     drops |-> DropIndexStatements(Quote(name), maps.drop,
                                   droppedColumn0 \cup DroppedColumns(fields)),
     adds |-> CreateIndexStatements(Quote(name), maps.add)]

\* The turn on the table tbl, whose live columns (if it is live and their
\* types are known) were appended to give oldFields.
PassWith(name, tbl, live, failed, oldFields, droppedColumn0) ==
    PassOf(name, tbl, live, failed, oldFields, droppedColumn0,
           IF live /\ ~failed THEN makeAlterTableFields(oldFields, tbl.Fields) ELSE <<>>,
           makeIndexMap(oldFields, tbl.Fields))

\* Whether a live column has a type GoFieldTypes does not know.
UnknownType(columns) == \E i \in DOMAIN columns : GoFieldTypes(columns[i]) = <<>>

\* One turn of Diff's loop over the sorted names, for the table name, from
\* the oldFields and droppedColumn that the turns before it left: oldFields
\* is not reset, the live columns of the table are appended to it.
TablePass(structMap, tableMap, oldFields0, droppedColumn0, name) ==
    IF name \notin DOMAIN tableMap
    THEN PassWith(name, structMap[name], FALSE, FALSE, oldFields0, droppedColumn0)
    ELSE IF UnknownType(tableMap[name])
    THEN [name |-> name, err |-> TRUE, fields |-> <<>>, head |-> <<>>,
          oldFields |-> oldFields0, droppedColumn |-> droppedColumn0,
          drops |-> {}, adds |-> {}]
    ELSE PassWith(name, structMap[name], TRUE, FALSE,
                  oldFields0 \o ProjectColumns(tableMap[name]), droppedColumn0)

RECURSIVE DiffLoop(_, _, _, _, _)

\* The turns from pass on: the loop goes on from what pass left, unless
\* pass failed.
DiffLoopAfter(structMap, tableMap, names, pass) ==
    IF pass.err THEN <<pass>>
    ELSE <<pass>> \o DiffLoop(structMap, tableMap, pass.oldFields, pass.droppedColumn, names)

\* The turns of Diff's loop over names, in order, up to the first failure.
DiffLoop(structMap, tableMap, oldFields, droppedColumn, names) ==
    IF names = <<>> THEN <<>>
    ELSE DiffLoopAfter(structMap, tableMap, Tail(names),
                       TablePass(structMap, tableMap, oldFields, droppedColumn, names[1]))

\* The turns of Diff on the tables structMap and the catalog tableMap.
Passes(structMap, tableMap) ==
    DiffLoop(structMap, tableMap, <<>>, {}, SortNames(DOMAIN structMap))

\* The statement lists the turns may leave: each turn adds its head, its
\* DROP INDEX statements in some order and its CREATE INDEX statements in
\* some order.
RECURSIVE PassResults(_)
PassResults(passes) ==
    IF passes = <<>> THEN {<<>>}
    ELSE {m \o passes[Len(passes)].head \o d \o a :
             m \in PassResults(SubSeq(passes, 1, Len(passes) - 1)),
             d \in PermSeqs(passes[Len(passes)].drops),
             a \in PermSeqs(passes[Len(passes)].adds)}

\* The results of Diff once structMap is built: the error of a turn, or
\* the statements of the turns followed by the DROP TABLE statements of
\* the tables left in tableMap, in map order.
DiffOf(passes, left) ==
    IF \E i \in DOMAIN passes : passes[i].err
    THEN {[err |-> "unexpected data type", sqls |-> <<>>]}
    ELSE {[err |-> "", sqls |-> m \o t] :
             m \in PassResults(passes),
             t \in PermSeqs({<<"DROP TABLE", Quote(n)>> : n \in left})}

\* A variant that drops every live table, desired or not.
DiffTablesDropsAll(structMap, tableMap) ==
    DiffOf(Passes(structMap, tableMap), DOMAIN tableMap)

DiffTables(structMap, tableMap) ==
    DiffOf(Passes(structMap, tableMap), DOMAIN tableMap \ DOMAIN structMap)

\* Diff(db, filename, src): the results it may return, [err, sqls], for the
\* parsed source astMap and the catalog tableMap.
Diff(astMap, tableMap) ==
    IF StructMapFails(astMap) THEN {[err |-> "unknown type", sqls |-> <<>>]}
    ELSE DiffTables(MakeStructMap(astMap), tableMap)

---------------------------------------------------------------------------
(* The inputs of the model: struct fields and live columns. *)

Ident(n) == [kind |-> "ident", name |-> n]

Selector(x, sel) == [kind |-> "selector", x |-> Ident(x), sel |-> sel]

Star(n) == [kind |-> "star", x |-> Ident(n)]

\* A struct field as parsed: its name, type expression, tag options and
\* line comment.
Decl(name, type, tag, comment) ==
    [Name |-> name, Type |-> type, Tag |-> tag,
     Comment |-> IF comment = "" THEN <<>>
                 ELSE <<[fromCatalog |-> FALSE, text |-> comment]>>]

\* The declarations of the fields ID, Name and Email that the first
\* struct may hold, in this order of declaration.
DeclsOfID ==
    { Decl("ID", Ident("int"), << <<"pk">>, <<"autoincrement">> >>, ""),
      Decl("ID", Ident("int64"), << <<"default", "0">> >>, "") }

DeclsOfName ==
    { Decl("Name", Ident("string"), << <<"size", "32">>, <<"index", "idx">> >>, ""),
      Decl("Name", Ident("string"), << <<"unique">> >>, "full name") }

DeclsOfEmail ==
    { Decl("Email", Selector("sql", "NullString"), << <<"unique">> >>, ""),
      Decl("Email", Ident("string"), << <<"index", "idx">> >>, ""),
      Decl("Email", Star("string"), << <<"-">> >>, "") }

\* The declarations the second struct may hold: Name before ID.
DeclsOfName2 ==
    { Decl("Name", Ident("string"), <<>>, ""),
      Decl("Name", Ident("string"), << <<"index">>, <<"unique">> >>, "") }

DeclsOfID2 == { Decl("ID", Ident("int32"), << <<"pk">>, <<"autoincrement">> >>, "") }

\* A live column.
Column(name, dataType, columnType, nullable, key, extra, indexName, nonUnique, size, def) ==
    [ColumnName |-> name, DataType |-> dataType, ColumnType |-> columnType,
     IsNullable |-> nullable, ColumnKey |-> key, Extra |-> extra,
     IndexName |-> indexName, NonUnique |-> nonUnique,
     CharacterMaximumLength |-> size, ColumnDefault |-> def, ColumnComment |-> ""]

\* The live columns id, name, email and age that the first table may have.
ColumnsOfID ==
    { Column("id", "int", "int(11)", "NO", "PRI", "auto_increment", "PRIMARY", 0, <<>>, <<>>),
      Column("id", "int", "int(11)", "NO", "", "", "", 0, <<>>, <<>>) }

ColumnsOfName ==
    { Column("name", "varchar", "varchar(32)", "NO", "MUL", "", "idx", 1, <<32>>, <<>>),
      Column("name", "varchar", "varchar(255)", "NO", "UNI", "", "name", 0,
             <<defaultVarcharSize>>, <<>>) }

ColumnsOfEmail ==
    { Column("email", "varchar", "varchar(255)", "YES", "UNI", "", "email", 0,
             <<defaultVarcharSize>>, <<>>),
      Column("email", "varchar", "varchar(255)", "NO", "MUL", "", "idx", 1,
             <<defaultVarcharSize>>, <<>>) }

ColumnsOfAge ==
    { Column("age", "int", "int(11)", "YES", "", "", "", 0, <<>>, <<>>) }

\* The live columns the second table may have: id before name.
ColumnsOfID2 ==
    { Column("id", "int", "int(11)", "NO", "PRI", "auto_increment", "PRIMARY", 0, <<>>, <<>>),
      Column("id", "decimal", "decimal(10,0)", "NO", "", "", "", 0, <<>>, <<>>) }

ColumnsOfName2 ==
    { Column("name", "varchar", "varchar(255)", "NO", "", "", "", 0,
             <<defaultVarcharSize>>, <<>>) }

\* The lists that take, in the order of slots, at most max elements, each
\* from the set of its slot.
RECURSIVE Bodies(_, _)
Bodies(slots, max) ==
    IF slots = <<>> THEN {<<>>}
    ELSE Bodies(Tail(slots), max)
         \cup (IF max = 0 THEN {}
               ELSE {<<v>> \o r : v \in slots[1], r \in Bodies(Tail(slots), max - 1)})

\* The parsed sources of the model: the structs t1 and t2 (the second with
\* a table option), each present unless its body is empty.
SourceOf(b1, b2) ==
    [n \in {x \in {"t1"} : b1 # <<>>} \cup {x \in {"t2"} : b2 # <<>>} |->
        IF n = "t1" THEN [Fields |-> b1, Option |-> ""]
        ELSE [Fields |-> b2, Option |-> "ENGINE=InnoDB"]]

Sources ==
    { SourceOf(b1, b2) :
        b1 \in Bodies(<<DeclsOfID, DeclsOfName, DeclsOfEmail>>, MaxFields),
        b2 \in Bodies(<<DeclsOfName2, DeclsOfID2>>, MaxFields) }

\* The live catalogs of the model: the tables t1, t2 and legacy, each
\* present unless it has no column.
CatalogOf(c1, c2, c3) ==
    [n \in {x \in {"t1"} : c1 # <<>>} \cup {x \in {"t2"} : c2 # <<>>}
           \cup {x \in {"legacy"} : c3 # <<>>} |->
        IF n = "t1" THEN c1 ELSE IF n = "t2" THEN c2 ELSE c3]

Catalogs ==
    { CatalogOf(c1, c2, c3) :
        c1 \in Bodies(<<ColumnsOfID, ColumnsOfName, ColumnsOfEmail, ColumnsOfAge>>, MaxFields),
        c2 \in Bodies(<<ColumnsOfID2, ColumnsOfName2>>, MaxFields),
        c3 \in Bodies(<<ColumnsOfAge>>, MaxFields) }

---------------------------------------------------------------------------
(* The database: what a statement does to the catalog when MySQL executes  *)
(* it.  The catalog keeps, as getIndexMap does, one index per column.      *)

\* The identifiers and literals a statement of the model may quote.
Identifiers == {"t1", "t2", "legacy", "id", "name", "email", "age", "idx", "_"}

Literals == {"0", "full name"}

Unquote(q) == CHOOSE n \in Identifiers : Quote(n) = q

\* The parts of tokens between the separator tokens.
RECURSIVE SplitTokens(_, _, _)
SplitTokens(tokens, sep, part) ==
    IF tokens = <<>> THEN <<part>>
    ELSE IF tokens[1] = sep THEN <<part>> \o SplitTokens(Tail(tokens), sep, <<>>)
    ELSE SplitTokens(Tail(tokens), sep, Append(part, tokens[1]))

\* The token after the keyword kw in def, as the literal it writes.
LiteralAfter(def, kw) ==
    LET i == CHOOSE j \in DOMAIN def : def[j] = kw
    IN IF \E v \in Literals : QuoteString(v) = def[i + 1]
       THEN CHOOSE v \in Literals : QuoteString(v) = def[i + 1]
       ELSE def[i + 1]

\* The column a column definition creates; index is the index the column
\* is already part of (<<name, nonUnique>>, or <<"", 0>>).
ColumnOfDef(def, index) ==
    LET ty == def[2]
        pk == inStrings(def, "PRIMARY KEY")
        varchar == \E n \in SizeValues : ty = "VARCHAR(" \o ToString(n) \o ")"
        size == CHOOSE n \in SizeValues : ty = "VARCHAR(" \o ToString(n) \o ")"
    IN [ColumnName |-> Unquote(def[1]),
        DataType |-> CASE ty = "INT" -> "int" [] ty = "TINYINT" -> "tinyint"
                       [] ty = "BIGINT" -> "bigint" [] OTHER -> "varchar",
        ColumnType |-> CASE ty = "INT" -> "int(11)" [] ty = "TINYINT" -> "tinyint(4)"
                         [] ty = "BIGINT" -> "bigint(20)"
                         [] OTHER -> "varchar(" \o ToString(size) \o ")",
        IsNullable |-> IF inStrings(def, "NOT NULL") \/ pk THEN "NO" ELSE "YES",
        ColumnKey |-> IF pk THEN "PRI" ELSE "",
        Extra |-> IF inStrings(def, AutoIncrementKeyword) THEN "auto_increment" ELSE "",
        IndexName |-> IF pk THEN "PRIMARY" ELSE index[1],
        NonUnique |-> IF pk THEN 0 ELSE index[2],
        CharacterMaximumLength |-> IF varchar THEN <<size>> ELSE <<>>,
        ColumnDefault |-> IF inStrings(def, "DEFAULT")
                          THEN <<LiteralAfter(def, "DEFAULT")>> ELSE <<>>,
        ColumnComment |-> IF inStrings(def, "COMMENT")
                          THEN LiteralAfter(def, "COMMENT") ELSE ""]

HasColumn(columns, name) == \E i \in DOMAIN columns : columns[i].ColumnName = name

HasIndexNamed(columns, name) == \E i \in DOMAIN columns : columns[i].IndexName = name

IsPrimary(c) == c.ColumnKey = "PRI"

\* The index a live column is part of, the primary key apart.
IndexOf(c) == IF IsPrimary(c) THEN <<"", 0>> ELSE <<c.IndexName, c.NonUnique>>

WithoutPrimary(c) ==
    IF IsPrimary(c) THEN [c EXCEPT !.ColumnKey = "", !.IndexName = "", !.NonUnique = 0]
    ELSE c

\* The clauses of an ALTER TABLE statement, and the column definitions of
\* a CREATE TABLE statement.
Clauses(stmt) == SplitTokens(SubSeq(stmt, 3, Len(stmt)), ",", <<>>)

ColumnDefs(stmt) ==
    LET close == CHOOSE i \in DOMAIN stmt : stmt[i] = ")"
    IN SplitTokens(SubSeq(stmt, 4, close - 1), ",", <<>>)

IndexColumns(stmt) ==
    LET parts == SplitTokens(SubSeq(stmt, 6, Len(stmt) - 1), ",", <<>>)
    IN [i \in DOMAIN parts |-> Unquote(parts[i][1])]

\* The columns but the one named name.
RECURSIVE WithoutColumn(_, _)
WithoutColumn(columns, name) ==
    IF columns = <<>> THEN <<>>
    ELSE (IF columns[1].ColumnName = name THEN <<>> ELSE <<columns[1]>>)
         \o WithoutColumn(Tail(columns), name)

\* One clause of ALTER TABLE on the columns of the table: <<ok, columns>>.
ApplyClause(columns, clause) ==
    CASE clause[1] = "ADD" ->
            \* ADD needs a column definition: a name alone is a syntax error.
            IF Len(clause) < 3 \/ HasColumn(columns, Unquote(clause[2]))
            THEN <<FALSE, columns>>
            ELSE <<TRUE, Append(columns, ColumnOfDef(Tail(clause), <<"", 0>>))>>
      [] clause[1] = "DROP" ->
            IF ~HasColumn(columns, Unquote(clause[2])) \/ Len(columns) = 1
            THEN <<FALSE, columns>>
            ELSE <<TRUE, WithoutColumn(columns, Unquote(clause[2]))>>
      [] clause[1] = "DROP PRIMARY KEY" ->
            IF ~\E i \in DOMAIN columns : IsPrimary(columns[i])
            THEN <<FALSE, columns>>
            ELSE <<TRUE, [i \in DOMAIN columns |-> WithoutPrimary(columns[i])]>>
      [] clause[1] = "MODIFY" ->
            LET name == Unquote(clause[2])
                def == Tail(clause)
            IN IF \/ ~HasColumn(columns, name)
                  \/ (inStrings(def, "PRIMARY KEY")
                      /\ \E i \in DOMAIN columns : IsPrimary(columns[i]))
               THEN <<FALSE, columns>>
               ELSE <<TRUE, [i \in DOMAIN columns |->
                               IF columns[i].ColumnName = name
                               THEN ColumnOfDef(def, IndexOf(columns[i]))
                               ELSE columns[i]]>>
      [] OTHER -> <<FALSE, columns>>

RECURSIVE ApplyClauses(_, _)
ApplyClauses(columns, clauses) ==
    IF clauses = <<>> THEN <<TRUE, columns>>
    ELSE LET r == ApplyClause(columns, clauses[1])
         IN IF r[1] THEN ApplyClauses(r[2], Tail(clauses)) ELSE r

\* The columns with the index name dropped.
WithoutIndex(columns, name) ==
    [i \in DOMAIN columns |->
        IF columns[i].IndexName = name
        THEN [columns[i] EXCEPT !.IndexName = "", !.NonUnique = 0, !.ColumnKey = ""]
        ELSE columns[i]]

\* The columns with the index name created on cols.  A column that is
\* already part of another index is read back with the new one.
WithIndex(columns, name, cols, unique) ==
    [i \in DOMAIN columns |->
        IF inStrings(cols, columns[i].ColumnName) /\ ~IsPrimary(columns[i])
        THEN [columns[i] EXCEPT !.IndexName = name,
                                !.NonUnique = IF unique THEN 0 ELSE 1,
                                !.ColumnKey = IF unique THEN "UNI" ELSE "MUL"]
        ELSE columns[i]]

\* A statement on the catalog: <<ok, catalog>>; a statement MySQL rejects
\* leaves the catalog as it was.
ApplyStatement(catalog, stmt) ==
    LET t == IF stmt[1] \in {"CREATE INDEX", "CREATE UNIQUE INDEX", "DROP INDEX"}
             THEN Unquote(stmt[4]) ELSE Unquote(stmt[2])
        live == t \in DOMAIN catalog
    IN CASE stmt[1] = "CREATE TABLE" ->
               LET defs == ColumnDefs(stmt)
                   columns == [i \in DOMAIN defs |-> ColumnOfDef(defs[i], <<"", 0>>)]
               IN IF live \/ Cardinality({i \in DOMAIN columns : IsPrimary(columns[i])}) > 1
                  THEN <<FALSE, catalog>>
                  ELSE <<TRUE, catalog @@ (t :> columns)>>
         [] stmt[1] = "DROP TABLE" ->
               IF ~live THEN <<FALSE, catalog>>
               ELSE <<TRUE, [n \in DOMAIN catalog \ {t} |-> catalog[n]]>>
         [] stmt[1] = "ALTER TABLE" ->
               IF ~live THEN <<FALSE, catalog>>
               ELSE LET r == ApplyClauses(catalog[t], Clauses(stmt))
                    IN IF r[1] THEN <<TRUE, [catalog EXCEPT ![t] = r[2]]>>
                       ELSE <<FALSE, catalog>>
         [] stmt[1] = "DROP INDEX" ->
               LET name == Unquote(stmt[2])
               IN IF ~live \/ name = "PRIMARY" \/ ~HasIndexNamed(catalog[t], name)
                  THEN <<FALSE, catalog>>
                  ELSE <<TRUE, [catalog EXCEPT ![t] = WithoutIndex(catalog[t], name)]>>
         [] stmt[1] \in {"CREATE INDEX", "CREATE UNIQUE INDEX"} ->
               LET name == Unquote(stmt[2])
                   cols == IndexColumns(stmt)
               IN IF \/ ~live
                     \/ HasIndexNamed(catalog[t], name)
                     \/ Cardinality(Range(cols)) # Len(cols)
                     \/ \E i \in DOMAIN cols : ~HasColumn(catalog[t], cols[i])
                  THEN <<FALSE, catalog>>
                  ELSE <<TRUE, [catalog EXCEPT ![t] =
                                   WithIndex(catalog[t], name, cols,
                                             stmt[1] = "CREATE UNIQUE INDEX")]>>
         [] OTHER -> <<FALSE, catalog>>

\* The catalog after the statements, each of which MySQL accepted.
RECURSIVE ApplyAll(_, _)
ApplyAll(catalog, stmts) ==
    IF stmts = <<>> THEN catalog
    ELSE ApplyAll(ApplyStatement(catalog, stmts[1])[2], Tail(stmts))

---------------------------------------------------------------------------
(* The state machine of Diff: a caller runs Diff on a source and a catalog. *)

NoField == ZeroField

Idle ==
    /\ pc = "start"
    /\ sqls = <<>>
    /\ err = ""
    /\ tx = "none"
    /\ next = 1
    /\ executed = <<>>
    /\ again = <<>>

Init ==
    /\ src \in Sources
    /\ db \in Catalogs
    /\ Idle
    /\ fa = NoField
    /\ fb = NoField
    /\ verdict = <<>>

\* Diff(db, filename, src) returns its statements, or the error of a type
\* it cannot name.
DiffCall ==
    /\ pc = "start"
    /\ \E r \in Diff(src, db) :
          /\ sqls' = r.sqls
          /\ err' = r.err
    /\ pc' = "diffed"
    /\ UNCHANGED <<src, db, tx, next, executed, again, fa, fb, verdict>>

Next == DiffCall

Spec == Init /\ [][Next]_vars

---------------------------------------------------------------------------
(* The state machine of Sync: Diff, Begin, one Exec per statement, then    *)
(* Commit, or Rollback at the first statement that fails.                  *)

\* The sources and catalogs Sync is run on.
SyncSources ==
    { SourceOf(b1, b2) :
        b1 \in Bodies(<<DeclsOfID, DeclsOfName, DeclsOfEmail>>, MaxFields),
        b2 \in Bodies(<<DeclsOfName2, DeclsOfID2>>, MaxFields) }

SyncCatalogs ==
    { CatalogOf(c1, c2, <<>>) :
        c1 \in Bodies(<<ColumnsOfID, ColumnsOfName, ColumnsOfEmail>>, MaxFields),
        c2 \in Bodies(<<ColumnsOfID2>>, MaxFields) }

InitSync ==
    /\ src \in SyncSources
    /\ db \in SyncCatalogs
    /\ Idle
    /\ fa = NoField
    /\ fb = NoField
    /\ verdict = <<>>

\* sqls, err := Diff(...); if err != nil { return err }.  Diff fails when
\* the catalog cannot be read or a type has no name.
SyncDiff ==
    /\ pc = "start"
    /\ \/ /\ err' = "catalog read failed"
          /\ pc' = "done"
          /\ sqls' = sqls
       \/ \E r \in Diff(src, db) :
             /\ err' = r.err
             /\ sqls' = r.sqls
             /\ pc' = IF r.err # "" THEN "done" ELSE "begin"
    /\ UNCHANGED <<src, db, tx, next, executed, again, fa, fb, verdict>>

\* tx, err := db.Begin(); if err != nil { return err }.
SyncBegin ==
    /\ pc = "begin"
    /\ \/ /\ tx' = "open"
          /\ pc' = "exec"
          /\ err' = err
       \/ /\ tx' = tx
          /\ pc' = "done"
          /\ err' = "begin failed"
    /\ UNCHANGED <<src, db, sqls, next, executed, again, fa, fb, verdict>>

\* A variant that walks the list from its end.
StatementAtReversed(list, n) == list[Len(list) + 1 - n]

\* The statement the loop of Sync hands to tx.Exec at position n.
StatementAt(list, n) == list[n]

\* A variant that rolls back at a failure and goes on with the loop.
SyncExecGoesOn ==
    /\ pc = "exec"
    /\ next <= Len(sqls)
    /\ executed' = Append(executed, StatementAt(sqls, next))
    /\ next' = next + 1
    /\ \/ /\ ApplyStatement(ApplyAll(db, executed), StatementAt(sqls, next))[1]
          /\ UNCHANGED <<tx, err>>
       \/ /\ tx' = "rolledback"
          /\ err' = "exec failed"
    /\ UNCHANGED <<src, db, pc, sqls, again, fa, fb, verdict>>

\* One turn of "for _, sql := range sqls": tx.Exec(sql) succeeds (MySQL
\* accepts the statement), or fails and Sync rolls back and returns.
SyncExec ==
    /\ pc = "exec"
    /\ next <= Len(sqls)
    /\ LET sql == StatementAt(sqls, next)
       IN /\ executed' = Append(executed, sql)
          /\ \/ /\ ApplyStatement(ApplyAll(db, executed), sql)[1]
                /\ next' = next + 1
                /\ UNCHANGED <<pc, tx, err>>
             \/ /\ tx' = "rolledback"
                /\ err' = "exec failed"
                /\ pc' = "done"
                /\ next' = next
    /\ UNCHANGED <<src, db, sqls, again, fa, fb, verdict>>

\* return tx.Commit(): the statements take effect, or the commit fails.
SyncCommit ==
    /\ pc = "exec"
    /\ next > Len(sqls)
    /\ pc' = "done"
    /\ \/ /\ tx' = "committed"
          /\ db' = ApplyAll(db, executed)
          /\ err' = err
       \/ /\ tx' = "commit failed"
          /\ db' = db
          /\ err' = "commit failed"
    /\ UNCHANGED <<src, sqls, next, executed, again, fa, fb, verdict>>

\* Diff run again on the same source after a Sync that committed.
DiffAgain ==
    /\ pc = "done"
    /\ tx = "committed"
    /\ \E r \in Diff(src, db) :
          /\ again' = r.sqls
          /\ err' = r.err
    /\ pc' = "rerun"
    /\ UNCHANGED <<src, db, sqls, tx, next, executed, fa, fb, verdict>>

NextSync == SyncDiff \/ SyncBegin \/ SyncExec \/ SyncCommit \/ DiffAgain

SpecSync == InitSync /\ [][NextSync]_vars

---------------------------------------------------------------------------
(* The state machine of the type comparison: two fields of one column are  *)
(* compared, each taken as the old one in turn.                            *)

\* The type tokens of the model: every registered token, and tokens that
\* no class lists.
TypeTokens ==
    UNION {Range(sameTypeClasses[i]) : i \in DOMAIN sameTypeClasses}
    \cup {"string", "int64", "time.Time"}

\* The field of column "status" with the type, default and primary-key flag.
FieldOf(type, def, pk) ==
    [Name |-> "Status", Type |-> type, Column |-> "status", Comment |-> "",
     RawIndexes |-> <<>>, Unique |-> FALSE, PrimaryKey |-> pk, AutoIncrement |-> FALSE,
     Ignore |-> FALSE, Default |-> def, Size |-> defaultVarcharSize]

TypeFields == {FieldOf(t, d, pk) : t \in TypeTokens, d \in {"", "0"}, pk \in BOOLEAN}

InitTypes ==
    /\ src = SourceOf(<<>>, <<>>)
    /\ db = CatalogOf(<<>>, <<>>, <<>>)
    /\ Idle
    /\ fa \in TypeFields
    /\ fb \in TypeFields
    /\ verdict = <<>>

\* isSameType and IsDifferent both ways, and the entries of
\* makeAlterTableFields with fa as the old field and fb as the new one.
Compare ==
    /\ pc = "start"
    /\ verdict' = [sameAB |-> isSameType(fa.Type, fb.Type),
                   sameBA |-> isSameType(fb.Type, fa.Type),
                   differentAB |-> IsDifferentPtr(<<fa>>, <<fb>>),
                   differentBA |-> IsDifferentPtr(<<fb>>, <<fa>>),
                   fields |-> makeAlterTableFields(<<fa>>, <<fb>>)]
    /\ pc' = "compared"
    /\ UNCHANGED <<src, db, sqls, err, tx, next, executed, again, fa, fb>>

NextTypes == Compare

SpecTypes == InitTypes /\ [][NextTypes]_vars

---------------------------------------------------------------------------
(* Properties. *)

\* Whether one class of the registry lists both tokens.
InOneClass(a, b) ==
    \E i \in DOMAIN sameTypeClasses :
        a \in Range(sameTypeClasses[i]) /\ b \in Range(sameTypeClasses[i])

\* Whether no class of the registry lists the token.
InNoClass(a) == \A i \in DOMAIN sameTypeClasses : a \notin Range(sameTypeClasses[i])

\* Whether two fields agree on all that IsDifferent compares but the type.
AgreeButType(f, g) ==
    /\ f.Default = g.Default /\ f.Size = g.Size /\ f.Column = g.Column
    /\ f.Comment = g.Comment /\ f.AutoIncrement = g.AutoIncrement
    /\ f.PrimaryKey = g.PrimaryKey

\* The Go type of a live, signed, nullable tinyint column.
NullableTinyint ==
    GoFieldTypes(Column("status", "tinyint", "tinyint(4)", "YES", "", "", "", 0, <<>>, <<>>))[1]

\* C5: type equivalence is symmetric and reflexive; two fields of types of
\* one class that agree on default, size, column, comment, auto-increment
\* and primary key are not different whichever is the old one (a live
\* nullable tinyint column against a sql.NullBool field gives no entry, so
\* no statement); a token of no class is equivalent only to itself.
TypeEquivalenceSymmetric ==
    pc = "compared" =>
        /\ verdict.sameAB = verdict.sameBA
        /\ (fa.Type = fb.Type => verdict.sameAB)
        /\ (InOneClass(fa.Type, fb.Type) /\ AgreeButType(fa, fb)
               => ~verdict.differentAB /\ ~verdict.differentBA)
        /\ (fa.Type = NullableTinyint /\ fb.Type = "sql.NullBool" /\ AgreeButType(fa, fb)
               => verdict.fields = <<>>)
        /\ (InNoClass(fa.Type) => (verdict.sameAB <=> fa.Type = fb.Type))

\* C5, reached: a nullable tinyint field and a sql.NullBool field that agree
\* otherwise were compared and found the same.
TypeEquivalenceWitness ==
    /\ pc = "compared"
    /\ fa.Type = NullableTinyint /\ fb.Type = "sql.NullBool"
    /\ fa.Type # fb.Type
    /\ AgreeButType(fa, fb)
    /\ verdict.sameAB /\ verdict.sameBA
    /\ ~verdict.differentAB /\ verdict.fields = <<>>

\* C3: Sync keeps no partial application.  A failing statement makes Sync
\* roll back and return that error; after it no statement is executed and
\* nothing is committed; Commit is called only when every statement of the
\* list was executed with success; when Diff fails no transaction is begun
\* and no statement is executed; the catalog changes only by a commit.
SyncAllOrNothing ==
    [][ /\ (tx' = "committed" /\ tx # "committed"
               => tx = "open" /\ err = "" /\ executed = sqls /\ next = Len(sqls) + 1)
        /\ (err' = "exec failed" /\ err # "exec failed"
               => tx' = "rolledback" /\ pc' = "done" /\ Len(executed') = Len(executed) + 1)
        /\ (tx = "rolledback"
               => tx' = "rolledback" /\ executed' = executed /\ db' = db /\ err' = err)
        /\ (pc = "start" /\ pc' = "done"
               => err' # "" /\ tx' = "none" /\ executed' = <<>>)
        /\ (tx' = "none" => executed' = <<>>)
        /\ (db' # db => tx' = "committed" /\ tx = "open")
      ]_vars

\* C3, reached: the second of at least three statements failed, and Sync
\* returned the error with the transaction rolled back.
SyncAllOrNothingWitness ==
    /\ pc = "done" /\ tx = "rolledback" /\ err = "exec failed"
    /\ Len(executed) = 2 /\ Len(sqls) >= 3

\* C4: the statements handed to tx.Exec so far are a prefix of the list
\* Diff returned, each handed once and in order, and all inside the one
\* transaction that Sync began.
ExecutedIsPrefix ==
    /\ Len(executed) <= Len(sqls)
    /\ \A k \in DOMAIN executed : executed[k] = sqls[k]
    /\ (executed # <<>> => tx # "none")
    /\ (pc = "exec" => Len(executed) = next - 1 /\ tx = "open")

\* C4, reached: Sync committed after it executed a list of at least two
\* different statements.
ExecutedIsPrefixWitness ==
    /\ pc = "done" /\ tx = "committed"
    /\ Len(sqls) >= 2 /\ executed = sqls /\ sqls[1] # sqls[2]

---------------------------------------------------------------------------
(* Properties of Diff. *)

\* The quoted name of the table a statement names.
TableOf(stmt) ==
    IF stmt[1] \in {"ALTER TABLE", "CREATE TABLE", "DROP TABLE"} THEN stmt[2] ELSE stmt[4]

\* The positions of list that hold a statement naming the table.
PositionsFor(list, tableName) == {i \in DOMAIN list : TableOf(list[i]) = tableName}

\* Whether the old and the new fields have the same columns, each once.
SameColumns(old, new) ==
    /\ Len(old) = Len(new)
    /\ \A i, j \in DOMAIN old : old[i].Column = old[j].Column => i = j
    /\ \A i \in DOMAIN new : \E j \in DOMAIN old : old[j].Column = new[i].Column

\* Whether a live field matches the desired one: equivalent type, equal
\* default, size, column, comment, primary-key and auto-increment flags, and
\* the same indexes and unique indexes.
FieldMatches(old, new) ==
    /\ ~IsDifferent(old, new)
    /\ Range(Indexes(old)) = Range(Indexes(new))
    /\ Range(UniqueIndexes(old)) = Range(UniqueIndexes(new))

\* Whether the live columns match the desired table.
TableMatches(tbl, columns) ==
    /\ ~UnknownType(columns)
    /\ SameColumns(ProjectColumns(columns), tbl.Fields)
    /\ \A i \in DOMAIN tbl.Fields : \A j \in DOMAIN columns :
          ProjectColumns(columns)[j].Column = tbl.Fields[i].Column
              => FieldMatches(ProjectColumns(columns)[j], tbl.Fields[i])

\* Whether the live catalog already matches the desired model.
CatalogMatches(astMap, tableMap) ==
    /\ ~StructMapFails(astMap)
    /\ DOMAIN MakeStructMap(astMap) = DOMAIN tableMap
    /\ \A n \in DOMAIN tableMap : TableMatches(MakeStructMap(astMap)[n], tableMap[n])

\* C1: Diff of a live catalog that already matches the desired model
\* returns no statement.
Idempotence ==
    pc = "diffed" /\ CatalogMatches(src, db) => err = "" /\ sqls = <<>>

\* C1 for a desired model of one table: there Diff returns no statement.
IdempotenceOfOneTable ==
    pc = "diffed" /\ CatalogMatches(src, db) /\ Cardinality(DOMAIN db) = 1
        => err = "" /\ sqls = <<>>

\* C1, reached: two live tables match the two desired tables, and Diff
\* returned a statement.
IdempotenceBroken ==
    /\ pc = "diffed" /\ CatalogMatches(src, db)
    /\ DOMAIN db = {"t1", "t2"}
    /\ err = "" /\ sqls # <<>>

\* C2: once the statements Diff returned were applied to the live catalog
\* in order, Diff run again on the same desired model returns no statement.
RoundTrip ==
    pc = "rerun" => err = "" /\ again = <<>>

\* C2, reached: Sync committed the statements of Diff for the one table
\* t1, none of which sets a comment, and Diff run again returned a
\* statement.
RoundTripBroken ==
    /\ pc = "rerun" /\ err = ""
    /\ DOMAIN src = {"t1"} /\ DOMAIN db = {"t1"}
    /\ \A i \in DOMAIN sqls : ~inStrings(sqls[i], "COMMENT")
    /\ again # <<>>

\* The turns of the Diff that was run.
Turns == Passes(MakeStructMap(src), db)

\* The desired fields of a table of the source.
DesiredFields(name) == MakeStructMap(src)[name].Fields

\* The columns of a list of fields.
ColumnsOf(fields) == {fields[i].Column : i \in DOMAIN fields}

\* The desired tables that are live, and the live fields of one.
LiveDesired == DOMAIN MakeStructMap(src) \cap DOMAIN db

LiveFields(name) == ProjectColumns(db[name])

\* The live fields of a table whose column no desired field of it has.
RemovedFields(name) ==
    {f \in Range(LiveFields(name)) : f.Column \notin ColumnsOf(DesiredFields(name))}

\* The index names a field is part of.
IndexNames(f) == Range(Indexes(f)) \cup Range(UniqueIndexes(f))

\* C6 as stated: when a live column that is part of an index (at any
\* position of it) is dropped by the field-level diff of a table, Diff
\* emits no DROP INDEX of that index for that table.
DropSuppression ==
    pc = "diffed" /\ err = "" =>
        \A name \in LiveDesired : \A f \in RemovedFields(name) : \A n \in IndexNames(f) :
            DropIndexStatement(Quote(name), n) \notin Range(sqls)

\* The positions of the new fields that lose the index n: the old field of
\* the column is part of it and the new field is not.
LosesIndex(oldFields, newFields, n) ==
    {i \in DOMAIN newFields :
        /\ Lookup(oldFields, newFields[i].Column) # <<>>
        /\ \/ /\ inStrings(Indexes(Lookup(oldFields, newFields[i].Column)[1]), n)
              /\ ~inStrings(Indexes(newFields[i]), n)
           \/ /\ inStrings(UniqueIndexes(Lookup(oldFields, newFields[i].Column)[1]), n)
              /\ ~inStrings(UniqueIndexes(newFields[i]), n)}

\* The column of the first of the new fields at the positions.
FirstColumn(newFields, positions) ==
    newFields[CHOOSE i \in positions : \A j \in positions : i <= j].Column

\* The columns the field-level diff classified Dropped in the turns up to k.
DroppedUpTo(turns, k) ==
    UNION {DroppedColumns(turns[m].fields) : m \in 1..k}

\* The index names that the old fields are part of or that a DROP INDEX
\* of the statements names.
IndexNamesIn(oldFields, list) ==
    UNION {IndexNames(oldFields[i]) : i \in DOMAIN oldFields}
    \cup {Unquote(list[i][2]) : i \in {j \in DOMAIN list : list[j][1] = "DROP INDEX"}}

\* What Diff does where C6 wants no DROP INDEX: a turn emits DROP INDEX n
\* for its table, once, exactly when some desired field loses the index n
\* and the column of the first such field is not among the columns dropped
\* in this turn or in a turn before it.  A dropped column at another
\* position of the index suppresses nothing.
DropIndexOfFirstColumn ==
    pc = "diffed" /\ err = "" =>
        LET turns == Turns
        IN \A k \in DOMAIN turns : \A n \in IndexNamesIn(turns[k].oldFields, sqls) :
              LET newFields == DesiredFields(turns[k].name)
                  losers == LosesIndex(turns[k].oldFields, newFields, n)
                  hits == {i \in DOMAIN sqls :
                              sqls[i] = <<"DROP INDEX", Quote(n), "ON", Quote(turns[k].name)>>}
              IN IF losers # {} /\ FirstColumn(newFields, losers) \notin DroppedUpTo(turns, k)
                 THEN Cardinality(hits) = 1
                 ELSE hits = {}

\* C6, reached: t1 is the one table; its live columns name and email are
\* both part of the index idx; the desired t1 keeps name and not email;
\* Diff dropped the column email and emitted DROP INDEX idx for t1.
DropSuppressionBroken ==
    /\ pc = "diffed" /\ err = ""
    /\ DOMAIN MakeStructMap(src) = {"t1"} /\ DOMAIN db = {"t1"}
    /\ \E f \in RemovedFields("t1") : f.Column = "email" /\ "idx" \in IndexNames(f)
    /\ \E f \in Range(LiveFields("t1")) : f.Column = "name" /\ "idx" \in IndexNames(f)
    /\ "name" \in ColumnsOf(DesiredFields("t1"))
    /\ <<"ALTER TABLE", Quote("t1"), "DROP", Quote("email")>> \in Range(sqls)
    /\ DropIndexStatement(Quote("t1"), "idx") \in Range(sqls)

\* The CREATE TABLE statement of the desired table name: one column
\* definition per field in the order of declaration, then the option.
ExpectedCreateTable(name) ==
    <<"CREATE TABLE", Quote(name), "(">>
    \o JoinTokens([i \in DOMAIN DesiredFields(name) |-> columnSQL(DesiredFields(name)[i])], ",")
    \o <<")">>
    \o (IF MakeStructMap(src)[name].Option # "" THEN <<MakeStructMap(src)[name].Option>>
        ELSE <<>>)

\* C7: for a desired table that is not live and whose fields carry no
\* index and no unique flag, Diff emits one statement naming the table,
\* its CREATE TABLE, whatever the other tables are.
CreateTableOnly ==
    pc = "diffed" /\ err = "" =>
        \A name \in DOMAIN MakeStructMap(src) \ DOMAIN db :
            (\A i \in DOMAIN DesiredFields(name) : IndexNames(DesiredFields(name)[i]) = {})
                => \E i \in DOMAIN sqls :
                      /\ sqls[i] = ExpectedCreateTable(name)
                      /\ PositionsFor(sqls, Quote(name)) = {i}

\* C7 for a desired model of that table alone: there the CREATE TABLE is
\* the one statement naming it.
CreateTableOnlyAlone ==
    pc = "diffed" /\ err = "" /\ Cardinality(DOMAIN MakeStructMap(src)) = 1 =>
        \A name \in DOMAIN MakeStructMap(src) \ DOMAIN db :
            (\A i \in DOMAIN DesiredFields(name) : IndexNames(DesiredFields(name)[i]) = {})
                => \E i \in DOMAIN sqls :
                      /\ sqls[i] = ExpectedCreateTable(name)
                      /\ PositionsFor(sqls, Quote(name)) = {i}

\* C7, reached: Diff created the table t2, whose fields carry no index
\* and no unique flag, and emitted a DROP INDEX for it as well.
CreateTableWithDropIndex ==
    /\ pc = "diffed" /\ err = ""
    /\ DOMAIN MakeStructMap(src) = {"t1", "t2"}
    /\ "t2" \notin DOMAIN db
    /\ \A i \in DOMAIN DesiredFields("t2") : IndexNames(DesiredFields("t2")[i]) = {}
    /\ ExpectedCreateTable("t2") \in Range(sqls)
    /\ \E i \in DOMAIN sqls : sqls[i][1] = "DROP INDEX" /\ TableOf(sqls[i]) = Quote("t2")

\* The rank of the table of a statement in the order of names.
RankOf(stmt) == NameRank(Unquote(TableOf(stmt)))

\* C8: Diff emits one DROP TABLE for each live table that is not a table
\* of the desired model and none for a table of the desired model; every
\* DROP TABLE comes after the statements of the desired tables, and these
\* come grouped by table in the lexicographic order of the table names.
DropTableLast ==
    pc = "diffed" /\ err = "" =>
        LET desired == DOMAIN MakeStructMap(src)
        IN /\ \A n \in DOMAIN db \ desired :
                 Cardinality({i \in DOMAIN sqls : sqls[i] = <<"DROP TABLE", Quote(n)>>}) = 1
           /\ \A i \in DOMAIN sqls :
                 IF sqls[i][1] = "DROP TABLE"
                 THEN Unquote(sqls[i][2]) \in DOMAIN db \ desired
                 ELSE Unquote(TableOf(sqls[i])) \in desired
           /\ \A i, j \in DOMAIN sqls :
                 i < j /\ sqls[i][1] = "DROP TABLE" => sqls[j][1] = "DROP TABLE"
           /\ \A i, j \in DOMAIN sqls :
                 i < j /\ sqls[j][1] # "DROP TABLE" => RankOf(sqls[i]) <= RankOf(sqls[j])

\* C8, reached: Diff emitted statements for t1 and then for t2, and after
\* them the DROP TABLE of the live table legacy, which is not desired.
DropTableLastWitness ==
    /\ pc = "diffed" /\ err = ""
    /\ "legacy" \in DOMAIN db
    /\ DOMAIN MakeStructMap(src) = {"t1", "t2"}
    /\ LiveDesired = {"t1", "t2"}
    /\ Len(sqls) >= 3
    /\ TableOf(sqls[1]) = Quote("t1")
    /\ TableOf(sqls[Len(sqls) - 1]) = Quote("t2")
    /\ sqls[Len(sqls)] = <<"DROP TABLE", Quote("legacy")>>

\* Whether a statement is the ALTER TABLE of the table that adds, or that
\* drops, the column, and whether it creates an index of that name on it.
IsAddOf(stmt, name, column) ==
    Len(stmt) >= 4 /\ SubSeq(stmt, 1, 4) = <<"ALTER TABLE", Quote(name), "ADD", Quote(column)>>

IsDropOf(stmt, name, column) ==
    stmt = <<"ALTER TABLE", Quote(name), "DROP", Quote(column)>>

IsUniqueIndexOf(stmt, name, column) ==
    stmt = <<"CREATE UNIQUE INDEX", Quote(column), "ON", Quote(name), "(", Quote(column), ")">>

IsIndexNamed(stmt, name, column) ==
    /\ stmt[1] \in {"CREATE INDEX", "CREATE UNIQUE INDEX"}
    /\ stmt[2] = Quote(column) /\ stmt[4] = Quote(name)

\* The desired fields of a live table that are unique and whose column the
\* live table lacks.
NewUniqueFields(name) ==
    {f \in Range(DesiredFields(name)) :
        f.Unique /\ f.Column \notin ColumnsOf(LiveFields(name))}

\* The desired tables before name in the order of names.
TablesBefore(name) == {m \in LiveDesired : NameRank(m) < NameRank(name)}

\* Whether nothing else bears the name of the new column: no live column of
\* a desired table before this one (oldFields still holds them), and no
\* index of a desired field of the table.
NameIsFree(name, column) ==
    /\ \A m \in TablesBefore(name) : column \notin ColumnsOf(LiveFields(m))
    /\ \A g \in Range(DesiredFields(name)) : ~inStrings(Indexes(g), column)

ModifiedColumn(stmt) ==
    stmt[(CHOOSE i \in DOMAIN stmt : stmt[i] = "MODIFY") + 1]

\* The ALTER TABLE statement of a Modified column of the table: DROP
\* PRIMARY KEY and a comma before MODIFY exactly when the old field is a
\* primary key and the new one is not.
ExpectedModify(name, old, new) ==
    <<"ALTER TABLE", Quote(name)>>
    \o (IF old.PrimaryKey /\ ~new.PrimaryKey THEN <<"DROP PRIMARY KEY", ",">> ELSE <<>>)
    \o <<"MODIFY">> \o columnSQL(new)

\* C10: for every column classified Modified, Diff emits one ALTER TABLE
\* statement: DROP PRIMARY KEY, a comma and MODIFY with the column
\* definition when the old field is a primary key and the new one is not,
\* and MODIFY with the column definition alone in every other case.
ModifyDropsPrimaryKey ==
    pc = "diffed" /\ err = "" =>
        LET turns == Turns
        IN \A k \in DOMAIN turns : \A e \in DOMAIN turns[k].fields :
              IsModified(turns[k].fields[e]) =>
                  LET old == turns[k].fields[e].old[1]
                      new == turns[k].fields[e].new[1]
                      hits == {i \in PositionsFor(sqls, Quote(turns[k].name)) :
                                  /\ inStrings(sqls[i], "MODIFY")
                                  /\ ModifiedColumn(sqls[i]) = Quote(new.Column)}
                  IN /\ Cardinality(hits) = 1
                     /\ \A i \in hits : sqls[i] = ExpectedModify(turns[k].name, old, new)

\* C10, reached: a primary key column became a column of another type
\* that is no primary key, and Diff emitted DROP PRIMARY KEY, MODIFY.
ModifyDropsPrimaryKeyWitness ==
    /\ pc = "diffed" /\ err = ""
    /\ \E k \in DOMAIN Turns : \E e \in DOMAIN Turns[k].fields :
          /\ IsModified(Turns[k].fields[e])
          /\ Turns[k].fields[e].old[1].PrimaryKey
          /\ ~Turns[k].fields[e].new[1].PrimaryKey
          /\ ~isSameType(Turns[k].fields[e].old[1].Type, Turns[k].fields[e].new[1].Type)
    /\ \E i \in DOMAIN sqls :
          /\ Len(sqls[i]) >= 5
          /\ SubSeq(sqls[i], 3, 5) = <<"DROP PRIMARY KEY", ",", "MODIFY">>

\* C11: for every column classified Added, Diff emits ALTER TABLE of the
\* table, ADD and the full column definition of the field, the rendering
\* that CREATE TABLE and MODIFY use, not the name of the column alone.
AddCarriesDefinition ==
    pc = "diffed" /\ err = "" =>
        LET turns == Turns
        IN \A k \in DOMAIN turns : \A e \in DOMAIN turns[k].fields :
              IsAdded(turns[k].fields[e]) =>
                  (<<"ALTER TABLE", Quote(turns[k].name), "ADD">>
                   \o columnSQL(turns[k].fields[e].new[1])) \in Range(sqls)

\* What Diff does where C11 wants the column definition: for every column
\* classified Added, the statement ends with the quoted name of the
\* column, and no statement of the table adds the column with more.
AddNamesColumnAlone ==
    pc = "diffed" /\ err = "" =>
        LET turns == Turns
        IN \A k \in DOMAIN turns : \A e \in DOMAIN turns[k].fields :
              IsAdded(turns[k].fields[e]) =>
                  /\ <<"ALTER TABLE", Quote(turns[k].name), "ADD",
                       Quote(turns[k].fields[e].new[1].Column)>> \in Range(sqls)
                  /\ \A i \in DOMAIN sqls :
                        IsAddOf(sqls[i], turns[k].name, turns[k].fields[e].new[1].Column)
                            => Len(sqls[i]) = 4

\* C11, reached: t1 is the one table, its live columns lack email, the
\* desired t1 declares Email, and Diff emitted ADD with the name of the
\* column and nothing more, while the column definition has a type.
AddWithoutDefinition ==
    /\ pc = "diffed" /\ err = ""
    /\ DOMAIN MakeStructMap(src) = {"t1"} /\ DOMAIN db = {"t1"}
    /\ "email" \notin ColumnsOf(LiveFields("t1"))
    /\ \E f \in Range(DesiredFields("t1")) :
          /\ f.Column = "email"
          /\ Len(columnSQL(f)) >= 2
          /\ (<<"ALTER TABLE", Quote("t1"), "ADD">> \o columnSQL(f)) \notin Range(sqls)
    /\ <<"ALTER TABLE", Quote("t1"), "ADD", Quote("email")>> \in Range(sqls)

\* A source, or a catalog, with every table but name left out.
OnlyTable(tables, name) == [n \in DOMAIN tables \cap {name} |-> tables[n]]

\* The statements of list that name the table, in the order of list.
RECURSIVE StatementsOf(_, _)
StatementsOf(list, tableName) ==
    IF list = <<>> THEN <<>>
    ELSE (IF TableOf(list[1]) = tableName THEN <<list[1]>> ELSE <<>>)
         \o StatementsOf(Tail(list), tableName)

\* Whether the statements that sqls holds for the desired table name are
\* statements Diff returns for the table on its own: for its desired
\* fields and the live columns of the table of its name, no other table in
\* the desired model or in the catalog.
Isolated(name) ==
    \E r \in Diff(OnlyTable(src, name), OnlyTable(db, name)) :
        r.err = "" /\ r.sqls = StatementsOf(sqls, Quote(name))

\* C12: the statements Diff emits for a desired table depend on the
\* desired fields of the table and on the live columns of the table of
\* its name only: they are the statements Diff emits for the table on its
\* own, whatever other tables the desired model and the catalog hold.
TableIsolation ==
    pc = "diffed" /\ err = "" =>
        \A name \in DOMAIN MakeStructMap(src) : Isolated(name)

\* C12 for the first desired table in the order of names: its statements
\* are those of the table on its own.
TableIsolationOfFirstTable ==
    pc = "diffed" /\ err = "" =>
        \A name \in DOMAIN MakeStructMap(src) :
            (\A m \in DOMAIN MakeStructMap(src) : NameRank(name) <= NameRank(m))
                => Isolated(name)

\* C12, reached: the desired t2 and the live t2 are as in a run that is
\* isolated, the table t1 is desired and live too, and the statements for
\* t2 are not those of t2 on its own.
TableIsolationBroken ==
    /\ pc = "diffed" /\ err = ""
    /\ DOMAIN MakeStructMap(src) = {"t1", "t2"}
    /\ LiveDesired = {"t1", "t2"}
    /\ Isolated("t1")
    /\ ~Isolated("t2")

====
